---- MODULE Spec2Model ----
(***************************************************************************)
(* Node/selection synchronisation of the organisation-chart editor.        *)
(*                                                                         *)
(* The App component (src/src/App.tsx) keeps the node collection, a        *)
(* key -> array-index map, the record shown in the inspector and the       *)
(* skipsDiagramUpdate flag.  Two handlers change that state:               *)
(*   handleDiagramEvent  - ChangedSelection notifications of the diagram   *)
(*   handleInputChange   - field edits coming from the inspector           *)
(* Both run an immer recipe inside setState, so each call is one atomic    *)
(* step from the previous state to the next.                               *)
(*                                                                         *)
(* The diagram components (src/unnamed/part_000) add two handlers of       *)
(* their own, each checked under its own specification:                    *)
(*   SelectionDeleting listener ("clear boss")  - DeleteSpec               *)
(*   mouseDrop, guarded by mayWorkFor           - DropSpec                 *)
(***************************************************************************)
EXTENDS Integers, Sequences, FiniteSets, TLC

VARIABLES
  nodeDataArray,       \* AppState.nodeDataArray, a 0-based array of records
  modelData,           \* AppState.modelData
  selectedData,        \* AppState.selectedData, a record or Null
  skipsDiagramUpdate,  \* AppState.skipsDiagramUpdate
  mapNodeKeyIdx,       \* App.mapNodeKeyIdx, Map<go.Key, number>
  selection,           \* the diagram's selection: what e.subject.first() yields
  lastCall,            \* the handler call that produced this state, with its arguments
  raised,              \* the exception the last handler call raised ("none" if it returned)
  publishedKey,        \* history: the key the last publishing notification resolved
  discarded,           \* history: the last notification replaced a copy with uncommitted edits
  treeParent,          \* the diagram's tree links: node key -> key of its tree parent
  bossText,            \* per node, the text of its object named "boss" (Null: no such object)
  transactionLevel     \* the diagram's count of started and not yet committed transactions

diagramVars == <<treeParent, bossText, transactionLevel>>

vars == <<nodeDataArray, modelData, selectedData, skipsDiagramUpdate,
          mapNodeKeyIdx, selection, lastCall, raised, publishedKey, discarded,
          treeParent, bossText, transactionLevel>>

(***************************************************************************)
(* JavaScript values.  A value carries its type, because Map.get and ===   *)
(* never identify the string "2" with the number 2.                        *)
(***************************************************************************)
Num(n) == <<"number", n>>
Str(s) == <<"string", s>>
Bool(b) == <<"boolean", b>>
Undefined == <<"undefined", 0>>
Null == <<"null", 0>>

(***************************************************************************)
(* Bounds.                                                                 *)
(***************************************************************************)
\* nodes with keys 1..MaxSelKey are the store nodes the user selects and edits
MaxSelKey == 2

\* SelectionDeleting is not delivered once this many transactions are open
MaxOpenTransactions == 3

\* the inspector sends the first MaxValues of these strings as new names
MaxValues == 1
NameStrings == <<"Bob", "B2", "B3">>

\* the (path, value) pairs the inspector sends: new names, a new title, and
\* a new key that reads like the key of another node
EditInputs ==
  {<<"name", Str(NameStrings[i])>> : i \in 1..MaxValues}
    \cup {<<"title", Str("CTO")>>, <<"key", Str("2")>>}

(***************************************************************************)
(* Records: a go.ObjectData is a function from property names to values;   *)
(* a property the object does not have reads as Undefined.                 *)
(***************************************************************************)
Fields == {"key", "name", "title", "parent", "isAssistant"}

NodeData(key, name, title, parent, isAssistant) ==
  [f \in Fields |->
     CASE f = "key" -> key
       [] f = "name" -> name
       [] f = "title" -> title
       [] f = "parent" -> parent
       [] f = "isAssistant" -> isAssistant]

Employee(key, name, title, parent) ==
  NodeData(Num(key), Str(name), Str(title), Num(parent), Undefined)

\* the array literal of the constructor, in source order
InitialNodes ==
  << NodeData(Num(1), Str("Stella Payne Diaz"), Str("CEO"), Undefined, Undefined),
     Employee(2, "Luke Warm", "VP Marketing/Sales", 1),
     Employee(3, "Meg Meehan Hoffa", "Sales", 2),
     Employee(4, "Peggy Flaming", "VP Engineering", 1),
     Employee(5, "Saul Wellingood", "Manufacturing", 4),
     Employee(6, "Al Ligori", "Marketing", 2),
     Employee(7, "Dot Stubadd", "Sales Rep", 3),
     Employee(8, "Les Ismore", "Project Mgr", 5),
     Employee(9, "April Lynn Parris", "Events Mgr", 6),
     Employee(10, "Xavier Breath", "Engineering", 4),
     Employee(11, "Anita Hammer", "Process", 5),
     Employee(12, "Billy Aiken", "Software", 10),
     Employee(13, "Stan Wellback", "Testing", 10),
     Employee(14, "Marge Innovera", "Hardware", 10),
     Employee(15, "Evan Elpus", "Quality", 5),
     Employee(16, "Lotta B. Essen", "Sales Rep", 3),
     Employee(17, "Joaquin Closet", "Wardrobe Assistant", 1),
     NodeData(Num(18), Str("Hannah Twomey"), Str("Engineering Assistant"), Num(10), Bool(TRUE)) >>

\* a JavaScript array: indices start at 0
ArrayOf(seq) == [i \in 0..(Len(seq) - 1) |-> seq[i + 1]]

InitialModelData == [canRelink |-> FALSE]

(***************************************************************************)
(* Map<go.Key, number>                                                     *)
(***************************************************************************)
MapHas(map, key) == key \in DOMAIN map

\* forEach runs in index order and Map.set overwrites: with equal keys the
\* last position wins
refreshNodeIndex(nodeArr) ==
  [k \in {nodeArr[i].key : i \in DOMAIN nodeArr} |->
     CHOOSE i \in DOMAIN nodeArr :
       /\ nodeArr[i].key = k
       /\ \A j \in DOMAIN nodeArr : nodeArr[j].key = k => j <= i]

(***************************************************************************)
(* The diagram side: the parts a ChangedSelection notification can carry.  *)
(***************************************************************************)
\* makeUniqueKeyFunction with data.key unset: the first positive key no
\* node data uses
makeUniqueKeyFunction(usedKeys) ==
  CHOOSE k \in 1..(Cardinality(usedKeys) + 1) :
    /\ Num(k) \notin usedKeys
    /\ \A j \in 1..(k - 1) : Num(j) \in usedKeys

\* the key of a node added in the diagram only (nodeDoubleClick); the store
\* never learns of it, handleModelChange being commented out
AddedNodeKey == makeUniqueKeyFunction({InitialNodes[i].key : i \in 1..Len(InitialNodes)})

NoPart == [kind |-> "none", key |-> Undefined]
LinkPart == [kind |-> "link", key |-> Undefined]
NodePart(k) == [kind |-> "node", key |-> Num(k)]

Parts == {NoPart, LinkPart, NodePart(AddedNodeKey)} \cup {NodePart(k) : k \in 1..MaxSelKey}

\* the keys of the diagram's nodes: one node per record, and the added node
DiagramKeys == {InitialNodes[i].key : i \in 1..Len(InitialNodes)} \cup {Num(AddedNodeKey)}

\* the nodes that are selected, dragged and dropped onto
TreeNodes == {part.key : part \in {q \in Parts : q.kind = "node"}}

\* a TreeModel makes the tree link of a node from the "parent" property of its data
TreeModelLinks ==
  [key \in DiagramKeys |->
     IF \E i \in 1..Len(InitialNodes) : InitialNodes[i].key = key
     THEN (CHOOSE n \in {InitialNodes[i] : i \in 1..Len(InitialNodes)} : n.key = key).parent
     ELSE Undefined]

\* the tree parents of a node, nearest first, following at most steps links
RECURSIVE TreeAncestors(_, _, _)
TreeAncestors(tree, key, steps) ==
  IF steps = 0 \/ tree[key] = Undefined
  THEN {}
  ELSE {tree[key]} \cup TreeAncestors(tree, tree[key], steps - 1)

\* Node.isInTreeOf: node is a child of other, perhaps indirectly
isInTreeOf(tree, node, other) ==
  other \in TreeAncestors(tree, node, Cardinality(DOMAIN tree))

\* Node.findTreeChildrenNodes
findTreeChildrenNodes(tree, key) == {child \in DOMAIN tree : tree[child] = key}

\* the names given to objects of the node template that the diagram with the
\* SelectionDeleting listener sets
NodeTemplateNames == {"SHAPE", "Picture"}

\* the text of the object called name in a freshly built node; Null when the
\* template has no object of that name (GraphObject.findObject)
TemplateObjectText(name, node) ==
  IF name \in NodeTemplateNames THEN Str("") ELSE Null

\* slip: the tree test is missing
mayWorkFor_NoTreeTest(tree, node1, node2) ==
  IF node1.kind # "node" THEN FALSE
  ELSE IF node1.key = node2 THEN FALSE
  ELSE TRUE

\* mayWorkFor(node1, node2): node1 is the selected part, node2 the node dropped onto
mayWorkFor(tree, node1, node2) ==
  IF node1.kind # "node" THEN FALSE
  ELSE IF node1.key = node2 THEN FALSE
  ELSE IF isInTreeOf(tree, node2, node1.key) THEN FALSE
  ELSE TRUE

\* the while loop of the listener over the children, in key order: the texts
\* after it, and whether it ran to its end (it returns at a child that has
\* no object named "boss")
RECURSIVE ClearBossOfChildren(_, _)
ClearBossOfChildren(texts, children) ==
  IF children = {}
  THEN [texts |-> texts, finished |-> TRUE]
  ELSE LET child == CHOOSE c \in children : \A d \in children : c[2] <= d[2]
       IN  IF texts[child] = Null
           THEN [texts |-> texts, finished |-> FALSE]
           ELSE ClearBossOfChildren([texts EXCEPT ![child] = Str("")], children \ {child})

\* the body of the SelectionDeleting listener between startTransaction and
\* commitTransaction; toNode is the destination of the link, when part is one
ClearBoss(tree, texts, part, toNode) ==
  CASE part.kind = "node" ->
         ClearBossOfChildren(texts, findTreeChildrenNodes(tree, part.key))
    [] part.kind = "link" ->
         IF texts[toNode] = Null
         THEN [texts |-> texts, finished |-> FALSE]
         ELSE [texts |-> [texts EXCEPT ![toNode] = Str("")], finished |-> TRUE]
    [] OTHER -> [texts |-> texts, finished |-> TRUE]

(***************************************************************************)
(* The immer recipes.  A recipe gets the current state as draft and gives  *)
(* the next state, or raises.                                              *)
(***************************************************************************)
AppState ==
  [nodeDataArray |-> nodeDataArray, modelData |-> modelData,
   selectedData |-> selectedData, skipsDiagramUpdate |-> skipsDiagramUpdate]

Returned(draft) == [state |-> draft, error |-> "none"]
Threw(base, err) == [state |-> base, error |-> err]

\* data[path] = value
SetProperty(data, path, value) == [data EXCEPT ![path] = value]

\* slip: a node that is already the selected one keeps the inspector's copy
ChangedSelectionRecipe_KeepCopy(draft, sel) ==
  IF sel.kind # "none"
  THEN IF sel.kind = "node"
       THEN IF MapHas(mapNodeKeyIdx, sel.key) /\ mapNodeKeyIdx[sel.key] >= 0
            THEN IF draft.selectedData # Null /\ draft.selectedData.key = sel.key
                 THEN Returned(draft)
                 ELSE Returned([draft EXCEPT !.selectedData =
                                               draft.nodeDataArray[mapNodeKeyIdx[sel.key]]])
            ELSE Returned(draft)
       ELSE Returned(draft)
  ELSE Returned([draft EXCEPT !.selectedData = Null])

\* slip: the position is taken one too far
ChangedSelectionRecipe_OffByOne(draft, sel) ==
  IF sel.kind # "none"
  THEN IF sel.kind = "node"
       THEN IF MapHas(mapNodeKeyIdx, sel.key) /\ mapNodeKeyIdx[sel.key] >= 0
            THEN Returned([draft EXCEPT !.selectedData =
                                          draft.nodeDataArray[mapNodeKeyIdx[sel.key] + 1]])
            ELSE Returned(draft)
       ELSE Returned(draft)
  ELSE Returned([draft EXCEPT !.selectedData = Null])

\* slip: the else branch of "if (sel)" is missing
ChangedSelectionRecipe_NoClear(draft, sel) ==
  IF sel.kind # "none"
  THEN IF sel.kind = "node"
       THEN IF MapHas(mapNodeKeyIdx, sel.key) /\ mapNodeKeyIdx[sel.key] >= 0
            THEN Returned([draft EXCEPT !.selectedData =
                                          draft.nodeDataArray[mapNodeKeyIdx[sel.key]]])
            ELSE Returned(draft)
       ELSE Returned(draft)
  ELSE Returned(draft)

\* slip: the else branch hangs on "if (sel instanceof go.Node)", so a link clears too
ChangedSelectionRecipe_LinkClears(draft, sel) ==
  IF sel.kind = "node"
  THEN IF MapHas(mapNodeKeyIdx, sel.key) /\ mapNodeKeyIdx[sel.key] >= 0
       THEN Returned([draft EXCEPT !.selectedData =
                                     draft.nodeDataArray[mapNodeKeyIdx[sel.key]]])
       ELSE Returned(draft)
  ELSE Returned([draft EXCEPT !.selectedData = Null])

\* slip: the test of idx is missing, a key the map lacks empties the inspector
ChangedSelectionRecipe_UnknownClears(draft, sel) ==
  IF sel.kind # "none"
  THEN IF sel.kind = "node"
       THEN IF MapHas(mapNodeKeyIdx, sel.key) /\ mapNodeKeyIdx[sel.key] >= 0
            THEN Returned([draft EXCEPT !.selectedData =
                                          draft.nodeDataArray[mapNodeKeyIdx[sel.key]]])
            ELSE Returned([draft EXCEPT !.selectedData = Null])
       ELSE Returned(draft)
  ELSE Returned([draft EXCEPT !.selectedData = Null])

\* slip: leaving a record writes the inspector's copy back, as a blur would
ChangedSelectionRecipe_CommitOnLeave(draft, sel) ==
  LET left == IF draft.selectedData # Null /\ MapHas(mapNodeKeyIdx, draft.selectedData.key)
              THEN [draft EXCEPT !.nodeDataArray[mapNodeKeyIdx[draft.selectedData.key]] =
                                   draft.selectedData]
              ELSE draft
  IN  IF sel.kind # "none"
      THEN IF sel.kind = "node"
           THEN IF MapHas(mapNodeKeyIdx, sel.key) /\ mapNodeKeyIdx[sel.key] >= 0
                THEN Returned([left EXCEPT !.selectedData =
                                             left.nodeDataArray[mapNodeKeyIdx[sel.key]]])
                ELSE Returned(draft)
           ELSE Returned(draft)
      ELSE Returned([left EXCEPT !.selectedData = Null])

\* the recipe of handleDiagramEvent, case 'ChangedSelection'
ChangedSelectionRecipe(draft, sel) ==
  IF sel.kind # "none"
  THEN IF sel.kind = "node"
       THEN IF MapHas(mapNodeKeyIdx, sel.key) /\ mapNodeKeyIdx[sel.key] >= 0
            THEN Returned([draft EXCEPT !.selectedData =
                                          draft.nodeDataArray[mapNodeKeyIdx[sel.key]]])
            ELSE Returned(draft)
       ELSE Returned(draft)
  ELSE Returned([draft EXCEPT !.selectedData = Null])

\* slip: the position is looked up by the key of the diagram's selected part
CommitEdit_BySelectedPart(draft, data) ==
  IF MapHas(mapNodeKeyIdx, selection.key) /\ mapNodeKeyIdx[selection.key] >= 0
  THEN [draft EXCEPT !.nodeDataArray[mapNodeKeyIdx[selection.key]] = data,
                     !.skipsDiagramUpdate = FALSE]
  ELSE draft

\* slip: a failed lookup falls back to position 0 (get(key) || 0)
CommitEdit_DefaultIndex(draft, data) ==
  IF MapHas(mapNodeKeyIdx, data.key) /\ mapNodeKeyIdx[data.key] >= 0
  THEN [draft EXCEPT !.nodeDataArray[mapNodeKeyIdx[data.key]] = data,
                     !.skipsDiagramUpdate = FALSE]
  ELSE [draft EXCEPT !.nodeDataArray[0] = data,
                     !.skipsDiagramUpdate = FALSE]

\* slip: the flag is set as the disabled handleModelChange sets it
CommitEdit_SkipsUpdate(draft, data) ==
  IF MapHas(mapNodeKeyIdx, data.key) /\ mapNodeKeyIdx[data.key] >= 0
  THEN [draft EXCEPT !.nodeDataArray[mapNodeKeyIdx[data.key]] = data,
                     !.skipsDiagramUpdate = TRUE]
  ELSE draft

\* slip: the index is a plain object, whose property names are strings, so
\* the string "2" finds the entry of the number 2
CommitEdit_CoercedKey(draft, data) ==
  LET key == IF data.key = Str("2") THEN Num(2) ELSE data.key
  IN  IF MapHas(mapNodeKeyIdx, key) /\ mapNodeKeyIdx[key] >= 0
      THEN [draft EXCEPT !.nodeDataArray[mapNodeKeyIdx[key]] = data,
                         !.skipsDiagramUpdate = FALSE]
      ELSE draft

\* the write-back of a finished edit
CommitEdit(draft, data) ==
  IF MapHas(mapNodeKeyIdx, data.key) /\ mapNodeKeyIdx[data.key] >= 0
  THEN [draft EXCEPT !.nodeDataArray[mapNodeKeyIdx[data.key]] = data,
                     !.skipsDiagramUpdate = FALSE]
  ELSE draft

\* slip: the write-back is not guarded by isBlur
InputChangeRecipe_AlwaysCommit(draft, path, value, isBlur) ==
  IF draft.selectedData = Null
  THEN Threw(draft, "TypeError")
  ELSE LET data == SetProperty(draft.selectedData, path, value)
           edited == [draft EXCEPT !.selectedData = data]
       IN  Returned(CommitEdit(edited, data))

\* slip: the write-back patches the edited property into the stored record
InputChangeRecipe_CommitField(draft, path, value, isBlur) ==
  IF draft.selectedData = Null
  THEN Threw(draft, "TypeError")
  ELSE LET data == SetProperty(draft.selectedData, path, value)
           edited == [draft EXCEPT !.selectedData = data]
       IN  IF isBlur /\ MapHas(mapNodeKeyIdx, data.key)
           THEN Returned(CommitEdit(edited,
                  SetProperty(draft.nodeDataArray[mapNodeKeyIdx[data.key]], path, value)))
           ELSE Returned(edited)

\* the recipe of handleInputChange; assigning a property of null raises
InputChangeRecipe(draft, path, value, isBlur) ==
  IF draft.selectedData = Null
  THEN Threw(draft, "TypeError")
  ELSE LET data == SetProperty(draft.selectedData, path, value)
           edited == [draft EXCEPT !.selectedData = data]
       IN  IF isBlur THEN Returned(CommitEdit(edited, data)) ELSE Returned(edited)

\* this.setState(produce(recipe)): a recipe that raises leaves the state as it was
SetState(result) ==
  /\ nodeDataArray' = result.state.nodeDataArray
  /\ modelData' = result.state.modelData
  /\ selectedData' = result.state.selectedData
  /\ skipsDiagramUpdate' = result.state.skipsDiagramUpdate
  /\ raised' = result.error

Call(name, sel, path, value, isBlur) ==
  [name |-> name, sel |-> sel, path |-> path, value |-> value, isBlur |-> isBlur]

(***************************************************************************)
(* The state machine.                                                      *)
(***************************************************************************)
Init ==
  /\ nodeDataArray = ArrayOf(InitialNodes)
  /\ modelData = InitialModelData
  /\ selectedData = Null
  /\ skipsDiagramUpdate = FALSE
  /\ mapNodeKeyIdx = refreshNodeIndex(ArrayOf(InitialNodes))
  /\ selection = NoPart
  /\ lastCall = Call("constructor", NoPart, "", Undefined, FALSE)
  /\ raised = "none"
  /\ publishedKey = Undefined
  /\ discarded = FALSE
  /\ treeParent = TreeModelLinks
  /\ bossText = [key \in DiagramKeys |-> TemplateObjectText("boss", key)]
  /\ transactionLevel = 0

\* the diagram's selection becomes sel and the ChangedSelection listener runs
handleDiagramEvent(sel) ==
  /\ selection' = sel
  /\ SetState(ChangedSelectionRecipe(AppState, sel))
  /\ lastCall' = Call("ChangedSelection", sel, "", Undefined, FALSE)
  /\ publishedKey' = CASE sel.kind = "none" -> Undefined
                        [] sel.kind = "node" /\ MapHas(mapNodeKeyIdx, sel.key) -> sel.key
                        [] OTHER -> publishedKey
  /\ discarded' = (/\ selectedData # Null
                   /\ selectedData' # selectedData
                   /\ \A p \in DOMAIN nodeDataArray : nodeDataArray[p] # selectedData)
  /\ UNCHANGED <<mapNodeKeyIdx, diagramVars>>

\* the inspector reports an edit of one property
handleInputChange(path, value, isBlur) ==
  /\ SetState(InputChangeRecipe(AppState, path, value, isBlur))
  /\ lastCall' = Call("handleInputChange", NoPart, path, value, isBlur)
  /\ discarded' = FALSE
  /\ UNCHANGED <<mapNodeKeyIdx, selection, publishedKey, diagramVars>>

DiagramEvent == \E sel \in Parts : handleDiagramEvent(sel)
InputChange == \E input \in EditInputs, isBlur \in BOOLEAN :
                 handleInputChange(input[1], input[2], isBlur)

Next == DiagramEvent \/ InputChange

Spec == Init /\ [][Next]_vars

(***************************************************************************)
(* The diagram with the SelectionDeleting listener (a TreeModel).          *)
(***************************************************************************)
appVars == <<nodeDataArray, modelData, selectedData, skipsDiagramUpdate,
             mapNodeKeyIdx, raised, publishedKey, discarded>>

\* the user deletes the selected part: the listener runs before the part goes
SelectionDeleting(toNode) ==
  /\ selection # NoPart
  /\ transactionLevel < MaxOpenTransactions
  /\ LET cleared == ClearBoss(treeParent, bossText, selection, toNode)
     IN  /\ bossText' = cleared.texts
         /\ transactionLevel' = IF cleared.finished
                                THEN (transactionLevel + 1) - 1
                                ELSE transactionLevel + 1
  /\ lastCall' = Call("SelectionDeleting",
                      IF selection.kind = "link" THEN NodePart(toNode[2]) ELSE selection,
                      "", Undefined, FALSE)
  /\ UNCHANGED <<appVars, selection, treeParent>>

DeleteSelection ==
  \E toNode \in {key \in DiagramKeys : treeParent[key] # Undefined} :
    SelectionDeleting(toNode)

DeleteNext == DiagramEvent \/ DeleteSelection

DeleteSpec == Init /\ [][DeleteNext]_vars

(***************************************************************************)
(* The diagram with the mouseDrop handler (a GraphLinksModel).             *)
(***************************************************************************)
\* the tree links the diagram starts with: any forest over the tree nodes
\* (bossText and transactionLevel belong to the other diagram and stay as
\* they start)
Forests ==
  {[key \in DiagramKeys |-> IF key \in TreeNodes THEN links[key] ELSE Undefined] :
     links \in {l \in [TreeNodes -> TreeNodes \cup {Undefined}] :
                  \A key \in TreeNodes :
                    key \notin TreeAncestors(l, key, Cardinality(TreeNodes))}}

DropInit ==
  /\ nodeDataArray = ArrayOf(InitialNodes)
  /\ modelData = InitialModelData
  /\ selectedData = Null
  /\ skipsDiagramUpdate = FALSE
  /\ mapNodeKeyIdx = refreshNodeIndex(ArrayOf(InitialNodes))
  /\ selection = NoPart
  /\ lastCall = Call("constructor", NoPart, "", Undefined, FALSE)
  /\ raised = "none"
  /\ publishedKey = Undefined
  /\ discarded = FALSE
  /\ treeParent \in Forests
  /\ bossText = [key \in DiagramKeys |-> TemplateObjectText("boss", key)]
  /\ transactionLevel = 0

\* the selected part is dropped onto node
mouseDrop(node) ==
  /\ treeParent' =
       IF mayWorkFor(treeParent, selection, node)
       THEN IF treeParent[selection.key] # Undefined
            THEN [treeParent EXCEPT ![selection.key] = node]   \* link.fromNode = node
            ELSE [treeParent EXCEPT ![selection.key] = node]   \* insertLink
       ELSE treeParent
  /\ lastCall' = Call("mouseDrop", NodePart(node[2]), "", Undefined, FALSE)
  /\ UNCHANGED <<appVars, selection, bossText, transactionLevel>>

Drop == \E node \in TreeNodes : mouseDrop(node)

DropNext == DiagramEvent \/ Drop

DropSpec == DropInit /\ [][DropNext]_vars

(***************************************************************************)
(* Properties.                                                             *)
(***************************************************************************)

\* C1: in every reachable state the key -> index map and the node collection
\* agree: every position p has mapNodeKeyIdx[nodeDataArray[p].key] = p, and
\* every key of the map points to a position whose record has that key.
IndexConsistent ==
  /\ \A p \in DOMAIN nodeDataArray :
       /\ MapHas(mapNodeKeyIdx, nodeDataArray[p].key)
       /\ mapNodeKeyIdx[nodeDataArray[p].key] = p
  /\ \A k \in DOMAIN mapNodeKeyIdx :
       /\ mapNodeKeyIdx[k] \in DOMAIN nodeDataArray
       /\ nodeDataArray[mapNodeKeyIdx[k]].key = k

\* a finished edit has been written into the collection
IndexConsistentWitness ==
  /\ lastCall.name = "handleInputChange" /\ lastCall.isBlur
  /\ nodeDataArray # ArrayOf(InitialNodes)
  /\ selectedData # Null /\ MapHas(mapNodeKeyIdx, selectedData.key)
  /\ nodeDataArray[mapNodeKeyIdx[selectedData.key]] = selectedData

\* C2: a ChangedSelection notification whose first selected part is a node
\* with a key of the store sets selectedData to the record the store holds
\* for that key, whatever selectedData was before.
SelectNodePublishesRecord ==
  [][(/\ lastCall'.name = "ChangedSelection"
      /\ lastCall'.sel.kind = "node"
      /\ MapHas(mapNodeKeyIdx, lastCall'.sel.key))
     => /\ selectedData' = nodeDataArray[mapNodeKeyIdx[lastCall'.sel.key]]
        /\ selectedData' = nodeDataArray'[mapNodeKeyIdx'[lastCall'.sel.key]]]_vars

\* a node whose stored record carries a committed edit has just been selected
SelectNodeWitness ==
  /\ lastCall.name = "ChangedSelection" /\ lastCall.sel.kind = "node"
  /\ MapHas(mapNodeKeyIdx, lastCall.sel.key)
  /\ selectedData = nodeDataArray[mapNodeKeyIdx[lastCall.sel.key]]
  /\ selectedData.title = Str("CTO")

\* C3 as stated: a final edit arriving while selectedData has a key k of the
\* index makes the record at index[k] equal to the whole working copy, with
\* record[fieldPath] = newValue, and index[k] still holds a record with key k.
FinalEditCommitsAnyPath ==
  [][(/\ lastCall'.name = "handleInputChange" /\ lastCall'.isBlur
      /\ selectedData # Null
      /\ MapHas(mapNodeKeyIdx, selectedData.key))
     => /\ selectedData' = SetProperty(selectedData, lastCall'.path, lastCall'.value)
        /\ nodeDataArray'[mapNodeKeyIdx[selectedData.key]] = selectedData'
        /\ nodeDataArray'[mapNodeKeyIdx[selectedData.key]][lastCall'.path] = lastCall'.value
        /\ MapHas(mapNodeKeyIdx', selectedData.key)
        /\ nodeDataArray'[mapNodeKeyIdx'[selectedData.key]].key = selectedData.key]_vars

\* C3 amended: the same for every fieldPath other than "key".
FinalEditCommits ==
  [][(/\ lastCall'.name = "handleInputChange" /\ lastCall'.isBlur
      /\ lastCall'.path # "key"
      /\ selectedData # Null
      /\ MapHas(mapNodeKeyIdx, selectedData.key))
     => /\ selectedData' = SetProperty(selectedData, lastCall'.path, lastCall'.value)
        /\ nodeDataArray'[mapNodeKeyIdx[selectedData.key]] = selectedData'
        /\ nodeDataArray'[mapNodeKeyIdx[selectedData.key]][lastCall'.path] = lastCall'.value
        /\ MapHas(mapNodeKeyIdx', selectedData.key)
        /\ nodeDataArray'[mapNodeKeyIdx'[selectedData.key]].key = selectedData.key]_vars

\* a final edit of "title" has stored a record that also carries an edited name
FinalEditWitness ==
  /\ lastCall.name = "handleInputChange" /\ lastCall.isBlur /\ lastCall.path = "title"
  /\ selectedData # Null /\ MapHas(mapNodeKeyIdx, selectedData.key)
  /\ nodeDataArray[mapNodeKeyIdx[selectedData.key]] = selectedData
  /\ selectedData.title = lastCall.value
  /\ selectedData.name = Str("Bob")

\* C4: a non-final edit made while a record is selected sets
\* selectedData[fieldPath] to newValue and leaves nodeDataArray unchanged;
\* nodeDataArray is changed by final edits only.
NonFinalEditKeepsStore ==
  [][/\ (/\ lastCall'.name = "handleInputChange" /\ ~lastCall'.isBlur
         /\ selectedData # Null)
        => /\ selectedData' # Null
           /\ selectedData'[lastCall'.path] = lastCall'.value
           /\ nodeDataArray' = nodeDataArray
     /\ nodeDataArray' # nodeDataArray
        => lastCall'.name = "handleInputChange" /\ lastCall'.isBlur]_vars

\* after a non-final edit the working copy differs from the stored record
NonFinalEditWitness ==
  /\ lastCall.name = "handleInputChange" /\ ~lastCall.isBlur
  /\ selectedData # Null /\ MapHas(mapNodeKeyIdx, selectedData.key)
  /\ selectedData[lastCall.path] = lastCall.value
  /\ nodeDataArray[mapNodeKeyIdx[selectedData.key]][lastCall.path] # lastCall.value

\* C5: a field edit that arrives while selectedData is none raises no error
\* and leaves nodeDataArray, selectedData, modelData and skipsDiagramUpdate
\* unchanged.
EditWithoutSelectionIgnored ==
  [][(lastCall'.name = "handleInputChange" /\ selectedData = Null)
     => /\ raised' = "none"
        /\ UNCHANGED <<nodeDataArray, selectedData, modelData, skipsDiagramUpdate>>]_vars

KeyImmutable ==
  [][/\ \A p \in DOMAIN nodeDataArray :
          p \in DOMAIN nodeDataArray' /\ nodeDataArray'[p].key = nodeDataArray[p].key
     /\ (lastCall'.name = "handleInputChange" /\ selectedData # Null)
        => selectedData' # Null /\ selectedData'.key = selectedData.key]_vars

\* C8: a ChangedSelection notification with an empty selection sets
\* selectedData to none and leaves nodeDataArray, modelData and
\* skipsDiagramUpdate unchanged.
EmptySelectionClears ==
  [][(lastCall'.name = "ChangedSelection" /\ lastCall'.sel.kind = "none")
     => /\ selectedData' = Null
        /\ UNCHANGED <<nodeDataArray, modelData, skipsDiagramUpdate>>]_vars

\* the selection was emptied after an edit had been written to the store
EmptySelectionWitness ==
  /\ lastCall.name = "ChangedSelection" /\ lastCall.sel.kind = "none"
  /\ selectedData = Null
  /\ nodeDataArray # ArrayOf(InitialNodes)

\* C9: a ChangedSelection notification whose first selected part is a link
\* leaves selectedData (uncommitted edits included), nodeDataArray, modelData
\* and skipsDiagramUpdate unchanged.
LinkSelectionChangesNothing ==
  [][(lastCall'.name = "ChangedSelection" /\ lastCall'.sel.kind = "link")
     => UNCHANGED <<nodeDataArray, modelData, selectedData, skipsDiagramUpdate,
                    mapNodeKeyIdx>>]_vars

\* a link was selected while the inspector held uncommitted edits
LinkSelectionWitness ==
  /\ lastCall.name = "ChangedSelection" /\ lastCall.sel.kind = "link"
  /\ selection = LinkPart
  /\ selectedData # Null /\ MapHas(mapNodeKeyIdx, selectedData.key)
  /\ selectedData # nodeDataArray[mapNodeKeyIdx[selectedData.key]]

\* C10: a final edit whose working-copy key has no entry in the index raises
\* no error and leaves nodeDataArray, the index and skipsDiagramUpdate
\* unchanged.
FinalEditUnknownKeyNoOp ==
  [][(/\ lastCall'.name = "handleInputChange" /\ lastCall'.isBlur
      /\ selectedData' # Null
      /\ ~MapHas(mapNodeKeyIdx, selectedData'.key))
     => /\ raised' = "none"
        /\ UNCHANGED <<nodeDataArray, mapNodeKeyIdx, skipsDiagramUpdate>>]_vars

\* a final edit of "name" was made on a working copy whose key is not indexed
FinalEditUnknownKeyWitness ==
  /\ lastCall.name = "handleInputChange" /\ lastCall.isBlur /\ lastCall.path = "name"
  /\ selectedData # Null /\ ~MapHas(mapNodeKeyIdx, selectedData.key)
  /\ selectedData.name = lastCall.value
  /\ raised = "none"

\* C11: a ChangedSelection notification whose first selected part is a node
\* with a key the index does not hold raises no error and leaves selectedData
\* and the rest of the application state unchanged.
UnknownNodeSelectionNoOp ==
  [][(/\ lastCall'.name = "ChangedSelection"
      /\ lastCall'.sel.kind = "node"
      /\ ~MapHas(mapNodeKeyIdx, lastCall'.sel.key))
     => /\ raised' = "none"
        /\ UNCHANGED <<nodeDataArray, modelData, selectedData, skipsDiagramUpdate,
                       mapNodeKeyIdx>>]_vars

\* the node added in the diagram was selected while the inspector held a record
UnknownNodeSelectionWitness ==
  /\ lastCall.name = "ChangedSelection"
  /\ lastCall.sel = NodePart(AddedNodeKey)
  /\ selection = NodePart(AddedNodeKey)
  /\ ~MapHas(mapNodeKeyIdx, selection.key)
  /\ selectedData # Null
  /\ raised = "none"

\* C13: skipsDiagramUpdate is false after a final edit that is written to the
\* store, and in every other reachable state.
SkipsDiagramUpdateFalse == skipsDiagramUpdate = FALSE

\* a final edit of "name" has been written to the store
SkipsDiagramUpdateWitness ==
  /\ lastCall.name = "handleInputChange" /\ lastCall.isBlur /\ lastCall.path = "name"
  /\ selectedData # Null /\ MapHas(mapNodeKeyIdx, selectedData.key)
  /\ nodeDataArray[mapNodeKeyIdx[selectedData.key]].name = lastCall.value
  /\ skipsDiagramUpdate = FALSE

\* C14: with selectedData published for key k by the last selection
\* notification, an edit (any path and value, final or not) changes no record
\* of nodeDataArray at a position other than index[k], and changes neither
\* the length nor the order of the collection.
EditTouchesOnlySelectedRecord ==
  [][lastCall'.name = "handleInputChange"
     => /\ DOMAIN nodeDataArray' = DOMAIN nodeDataArray
        /\ \A p \in DOMAIN nodeDataArray :
             /\ nodeDataArray'[p].key = nodeDataArray[p].key
             /\ nodeDataArray'[p] # nodeDataArray[p]
                  => /\ MapHas(mapNodeKeyIdx, publishedKey)
                     /\ p = mapNodeKeyIdx[publishedKey]]_vars

\* the record published for key 1 has had its key edited to "2" and a final
\* edit made; the record of node 2 is as the constructor set it
EditTouchesOnlySelectedWitness ==
  /\ lastCall.name = "handleInputChange" /\ lastCall.isBlur
  /\ publishedKey = Num(1)
  /\ selectedData # Null /\ selectedData.key = Str("2")
  /\ nodeDataArray[0] # InitialNodes[1]
  /\ nodeDataArray[1] = InitialNodes[2]

\* C15: a selection notification for a node of the store or for the empty
\* selection drops the uncommitted edits of the working copy: the step leaves
\* nodeDataArray unchanged, and selectedData is then none or the record the
\* store holds for its key.
UncommittedEditsDiscarded ==
  [][(/\ lastCall'.name = "ChangedSelection"
      /\ \/ lastCall'.sel.kind = "none"
         \/ lastCall'.sel.kind = "node" /\ MapHas(mapNodeKeyIdx, lastCall'.sel.key))
     => /\ nodeDataArray' = nodeDataArray
        /\ \/ selectedData' = Null
           \/ /\ selectedData'.key = lastCall'.sel.key
              /\ selectedData' = nodeDataArray[mapNodeKeyIdx[lastCall'.sel.key]]]_vars

\* a working copy with uncommitted edits was replaced by the selection of a
\* store node, and the store shows none of its values
UncommittedEditsWitness ==
  /\ lastCall.name = "ChangedSelection" /\ lastCall.sel.kind = "node"
  /\ discarded
  /\ MapHas(mapNodeKeyIdx, lastCall.sel.key)
  /\ selectedData = nodeDataArray[mapNodeKeyIdx[lastCall.sel.key]]
  /\ nodeDataArray = ArrayOf(InitialNodes)

\* C12: when the SelectionDeleting listener runs for a node, the "boss" text
\* of every child of the node is cleared and no data record (so no parent
\* key) changes; when it runs for a link, the "boss" text of the link's
\* destination node is cleared and that of no other node changes.
DeletingClearsBossText ==
  [][lastCall'.name = "SelectionDeleting"
     => /\ nodeDataArray' = nodeDataArray
        /\ treeParent' = treeParent
        /\ selection.kind = "node"
             => \A child \in findTreeChildrenNodes(treeParent, selection.key) :
                  bossText'[child] = Str("")
        /\ selection.kind = "link"
             => /\ bossText'[lastCall'.sel.key] = Str("")
                /\ \A other \in DiagramKeys \ {lastCall'.sel.key} :
                     bossText'[other] = bossText[other]]_vars

\* C16: every "clear boss" transaction the SelectionDeleting listener starts
\* is committed when the listener returns: the listener leaves as many
\* transactions open as it found.
ClearBossTransactionCommitted ==
  [][lastCall'.name = "SelectionDeleting"
     => transactionLevel' = transactionLevel]_vars

\* C17: starting from a forest, the tree links stay acyclic under mouseDrop
\* (no node is among its own tree ancestors), and a drop made while the
\* selection is empty or a link changes nothing.
ReportingStaysAcyclic ==
  /\ [](\A key \in DiagramKeys :
          key \notin TreeAncestors(treeParent, key, Cardinality(DiagramKeys)))
  /\ [][(lastCall'.name = "mouseDrop" /\ selection.kind # "node")
        => UNCHANGED <<treeParent, appVars, selection, bossText, transactionLevel>>]_vars

\* node 1, the root of the chain 1 <- 2 <- added node, was selected and
\* dropped onto the added node: the drop was refused
ReportingWitness ==
  /\ lastCall.name = "mouseDrop"
  /\ lastCall.sel = NodePart(AddedNodeKey)
  /\ selection = NodePart(1)
  /\ treeParent[Num(AddedNodeKey)] = Num(2)
  /\ treeParent[Num(2)] = Num(1)
  /\ treeParent[Num(1)] = Undefined

====
